---------------------------- MODULE Spec2Model ----------------------------
(***************************************************************************)
(* Imperium Flow: the orchestration core.                                  *)
(*                                                                         *)
(* ZNOrchestrator.execute_workflow (src/src/core/orchestrator.py) is a     *)
(* coroutine.  It is modelled as a program counter pc that moves from one  *)
(* suspension point of the coroutine to the next; the code between two     *)
(* suspension points runs without interruption on the asyncio event loop   *)
(* and is one action.  The dispatches of one batch (asyncio.gather) are    *)
(* separate coroutines, each with its own start and finish step, and       *)
(* abort_workflow is a coroutine another caller can run whenever           *)
(* execute_workflow is suspended on an executor, or has returned.          *)
(***************************************************************************)
EXTENDS Naturals, Integers, Sequences, FiniteSets, TLC

(***************************************************************************)
(* Bounds of the model.                                                    *)
(***************************************************************************)
\* A plan holds 1..MaxTasks tasks; the task at position i has id i.
MaxTasks == 2

\* At most MaxMsgs messages are sent on the bus.
MaxMsgs == 2

\* The clock readings are 0..MaxTime.
MaxTime == 1

\* A message's ttl_seconds is in 0..MaxTtl.
MaxTtl == 1

\* At most MaxListeners callbacks are subscribed on the bus.
MaxListeners == 2

\* A breaker's failure_threshold is in 1..MaxThreshold.
MaxThreshold == 3

\* A breaker's recovery_timeout is in 0..MaxTimeout.
MaxTimeout == 1

\* record_failure is called while failure_count is below MaxFailures.
MaxFailures == 4
MaxExecutes == 5
MaxComplexity == 11
MaxAgentsRequired == 3
MaxReviews == 2

(***************************************************************************)
(* Program constants.                                                      *)
(***************************************************************************)
\* orchestrator.py:126
max_retries == 3

\* integrationbot.py:29-30 -- the defaults of a CircuitBreaker
MAX_RETRIES == 3
failure_threshold_default == 3
recovery_timeout_default == 30

TaskIds == 1..MaxTasks

\* WorkflowStatus (orchestrator.py:24-31)
WorkflowStatus == {"pending", "planning", "executing", "quality_check",
                   "completed", "failed", "aborted"}

\* What one call of an executor (agent.execute, awaited by
\* _execute_single_task) can do: return a result whose status is
\* "completed", return one whose status is "failed", or raise.
Outcomes == {"completed", "failed", "raise"}

\* What one call of IntegrationBot.execute can do besides: return a result
\* whose status is "degraded" (integrationbot.py:131, 152).
IntegrationOutcomes == Outcomes \cup {"degraded"}

\* The plans execute_workflow is called with: no task, dependency or id is
\* constrained by the code, so dependencies may point forward, at the task
\* itself (a cycle), or at an id that no task of the plan has.
Plans ==
  UNION { { [i \in 1..n |-> [id |-> i, dependencies |-> d[i]]] :
              d \in [1..n -> SUBSET TaskIds] } : n \in 1..MaxTasks }

VARIABLES
  tasks,            \* the plan: a sequence of task records
  quality_gates,    \* TRUE iff gate names were supplied to execute_workflow
  require_board_approval,
  pc,               \* where the coroutine execute_workflow stands
  registered,       \* context.workflow_id is a key of active_workflows
  status,           \* context.status
  results,          \* context.results: per task, "error" and "Note" keys
  quality_report,   \* context.quality_report
  metadata,         \* the keys of context.metadata
  completed_task_ids,
  ready_tasks,      \* the batch of the current tick (task ids, input order)
  run,              \* per task: its dispatch within asyncio.gather
  batch_results,    \* per task: what gather collected for it
  idx,              \* position of the zip loop over (ready_tasks, results)
  fix_attempt,
  calls,            \* per task: number of agent.execute invocations so far
  outcomes,         \* per task: what each executor call did, in call order:
                    \* TRUE for a non-failure result, FALSE for a failure
  raised,           \* the places where a call raised an exception so far
  active_tasks,     \* ImperiumMetrics.active_tasks (its keys)
  metrics,          \* per task: number of TaskMetric records in metrics.metrics
  deadlocked,       \* the deadlock branch (orchestrator.py:134-136) was taken
  abort_called,     \* abort_workflow was called for the workflow and returned True
  exit,             \* the return statement execute_workflow left by
  final,            \* context.status at the moment execute_workflow returned
  now,              \* the latest reading of the clock (datetime.now, time.time)
  queues,           \* MessageBus.queues: per agent, a sequence of messages
  history,          \* MessageBus.history, as the ids of its messages
  subscribers,      \* MessageBus.subscribers: per agent, a sequence of listeners
  delivered,        \* per message id: the agents receive returned it to, in order
  purged,           \* the ids of the messages receive dropped as expired
  notified,         \* the ids of the messages handed to _notify_subscribers
  last_call,        \* the last call on the bus: its message (sent or returned)
                    \* and the listeners it called
  failure_threshold,
  recovery_timeout,
  state,            \* CircuitBreaker.state
  failure_count,
  last_failure_time,
  streak,           \* record_failure calls since the last record_success
  answer,           \* the last call on the breaker: the state it found and
                    \* what it returned
  service,          \* the "service" key of the tasks given to IntegrationBot
  fallback_cache,   \* IntegrationBot.fallback_cache: per key, the cached data
  result,           \* what the last call of IntegrationBot.execute returned
  proposal,         \* the WorkflowProposal of the last review_workflow call
  decision_history, \* BoardOfDirectors.decision_history
  running,          \* per run of two on one coordinator: the id of the task it
                    \* is in _execute_single_task for, where it stands, and
                    \* how its executor call ended
  started,          \* ImperiumMetrics.active_tasks: per task id, the run whose
                    \* start_task built the TaskMetric filed there (0: none)
  finished          \* ImperiumMetrics.metrics: the TaskMetric records, each
                    \* with the run that started and the run that completed it

vars == <<tasks, quality_gates, require_board_approval, pc, registered, status,
          results, quality_report, metadata, completed_task_ids, ready_tasks,
          run, batch_results, idx, fix_attempt, calls, outcomes, active_tasks,
          metrics, deadlocked, abort_called, exit, final, raised, now, queues,
          history, subscribers, delivered, purged, notified, last_call,
          failure_threshold, recovery_timeout, state, failure_count,
          last_failure_time, streak, answer, service, fallback_cache,
          result, proposal, decision_history, running, started,
          finished>>

(***************************************************************************)
(* WorkflowEngine (src/src/core/workflow_engine.py)                        *)
(***************************************************************************)
\* workflow_engine.py:30 -- task.get("dependencies", []): a task without the
\* field has no dependencies.
task_dependencies(t) ==
  IF "dependencies" \in DOMAIN t THEN t.dependencies ELSE {}

\* get_ready_tasks with any() for all(): one completed dependency is enough,
\* and a task without dependencies is never ready (a mutant).
get_ready_tasks_AnyDep(ts, completed_ids) ==
  LET Ready(t) == /\ t.id \notin completed_ids
                  /\ \E d \in task_dependencies(t) : d \in completed_ids
  IN  SelectSeq(ts, Ready)

\* get_ready_tasks without its dependency test (a mutant).
get_ready_tasks_NoDeps(ts, completed_ids) ==
  LET Ready(t) == t.id \notin completed_ids
  IN  SelectSeq(ts, Ready)

\* get_ready_tasks: the tasks, in input order, that are not completed and
\* whose dependencies are all completed.
get_ready_tasks(ts, completed_ids) ==
  LET Ready(t) == /\ t.id \notin completed_ids
                  /\ \A d \in task_dependencies(t) : d \in completed_ids
  IN  SelectSeq(ts, Ready)

\* is_workflow_complete answering yes as soon as one task is completed (a
\* mutant).
is_workflow_complete_Any(ts, completed_ids) ==
  \E i \in 1..Len(ts) : ts[i].id \in completed_ids

is_workflow_complete(ts, completed_ids) ==
  {ts[i].id : i \in 1..Len(ts)} \subseteq completed_ids

\* The ids of a sequence of tasks, in order.
Ids(ts) == [i \in 1..Len(ts) |-> ts[i].id]

Range(s) == {s[i] : i \in 1..Len(s)}

Deps(t) == task_dependencies(tasks[t])

(***************************************************************************)
(* execute_workflow                                                        *)
(***************************************************************************)
\* Whether an executor outcome is a failure in the executor contract: an
\* explicit failed status or a thrown error.
Failed(o) == o \in {"failed", "raise"}

\* A gathered result counted as a failure unless its status is "completed"
\* (a mutant).
IsFailure_NotCompleted(r) == r # "completed"

\* orchestrator.py:146 -- a gathered result is a failure when it is an
\* exception or a dict whose status is "failed".
IsFailure(r) == r = "raise" \/ r = "failed"

\* orchestrator.py:168 -- a retried call is a fix when it returned (did not
\* raise) and its status is not "failed".
IsFixed(r) == r # "raise" /\ r # "failed"

NoResults == [task |-> [t \in TaskIds |-> "none"], error |-> FALSE, note |-> FALSE]

\* Groups of variables, for the frame conditions.
params  == <<tasks, quality_gates, require_board_approval>>
batch   == <<ready_tasks, run, batch_results, idx>>
metric  == <<active_tasks, metrics>>
returns == <<exit, final>>

\* The receivers of the model, two of the AgentType values (protocol.py:16-23).
Agents == {"code_worker", "test_worker"}

\* Priority (protocol.py:36-41)
LOW == 1
MEDIUM == 2
HIGH == 3
CRITICAL == 4
Priority == {LOW, MEDIUM, HIGH, CRITICAL}

MessageIds == 1..MaxMsgs
Listeners == 1..MaxListeners

\* The value of last_call before any call, and after a call the claims do
\* not observe.
NoCall == [op |-> "none", agent |-> "none", msg |-> <<>>, invoked |-> <<>>,
           failed |-> {}]

bus      == <<queues, history, subscribers, delivered, purged, notified,
              last_call>>
breaker  == <<failure_threshold, recovery_timeout, state, failure_count,
              last_failure_time, streak, answer>>
bot      == <<service, fallback_cache, result>>
\* What neither execute_workflow nor the bus nor a breaker on its own touches.
board    == <<proposal, decision_history>>
pair     == <<running, started, finished>>
elsewhere == <<bot, board, pair>>
\* What execute_workflow leaves alone: the clock, the bus, the breaker and
\* the rest.
apart    == <<now, bus, breaker, elsewhere>>
workflow == <<params, batch, metric, returns, pc, registered, status, results,
              quality_report, metadata, completed_task_ids, fix_attempt,
              calls, outcomes, raised, deadlocked, abort_called>>

\* protocol.py:90-95 -- MessageBus.__init__
MessageBus_init ==
  /\ queues = [a \in Agents |-> <<>>]
  /\ history = <<>>
  /\ subscribers = [a \in Agents |-> <<>>]
  /\ delivered = [i \in MessageIds |-> <<>>]
  /\ purged = {}
  /\ notified = {}
  /\ last_call = NoCall

\* integrationbot.py:28-33 -- a CircuitBreaker as the dataclass builds it,
\* with the given threshold and timeout.
CircuitBreaker_init(threshold, timeout) ==
  /\ failure_threshold = threshold
  /\ recovery_timeout = timeout
  /\ state = "closed"
  /\ failure_count = 0
  /\ last_failure_time = 0
  /\ streak = 0
  /\ answer = [op |-> "none", was |-> "closed", ret |-> TRUE]

\* The "service" key of a task: "none" stands for a task without the key.
Services == {"none", "payments"}

\* integrationbot.py:119 -- the name execute files the breaker and the
\* cached result under.
service_name(s) == IF s = "none" THEN "external_api" ELSE s

\* integrationbot.py:234 -- the name _graceful_degradation looks the cached
\* result up under.
degradation_service(s) == IF s = "none" THEN "unknown" ELSE s

CacheKeys == {service_name(s) : s \in Services} \cup
             {degradation_service(s) : s \in Services}

\* No data: a key absent from fallback_cache, a result without a fallback.
NoData == 0
NoFallback == [source |-> "none", data |-> NoData, stale |-> FALSE]

\* integrationbot.py:113-118 -- the result of execute as it is built, before
\* any phase has run; call counts the calls of execute so far.
PendingResult == [call |-> 0, status |-> "pending", strategy |-> "none",
                  attempts |-> 0, recorded |-> "none", fallback |-> NoFallback]

\* integrationbot.py:75-79 -- IntegrationBot.__init__
IntegrationBot_init ==
  /\ fallback_cache = [k \in CacheKeys |-> NoData]
  /\ result = PendingResult

\* directors.py:44-52 -- the proposals: complexity is an int the code does
\* not constrain, agents_required is known by its length.
Proposals ==
  [complexity : 0..MaxComplexity,
   agents_required : 0..MaxAgentsRequired,
   touches_external_services : BOOLEAN,
   touches_database : BOOLEAN]

NoProposal == [complexity |-> 0, agents_required |-> 0,
               touches_external_services |-> FALSE,
               touches_database |-> FALSE]

\* directors.py:63-66 -- BoardOfDirectors.__init__
BoardOfDirectors_init ==
  /\ proposal = NoProposal
  /\ decision_history = <<>>

\* Two runs of execute_workflow on one coordinator.
Runs == 1..2

\* metrics.py:46-50 -- ImperiumMetrics.__init__
ImperiumMetrics_init ==
  /\ started = [t \in TaskIds |-> 0]
  /\ finished = <<>>

\* Neither run has a task in hand.
NoRuns == running = [w \in Runs |-> [task_id |-> 1, at |-> "idle",
                                     outcome |-> "none"]]

\* The parts no call has touched yet.
Elsewhere_init ==
  /\ service = "none"
  /\ IntegrationBot_init
  /\ BoardOfDirectors_init
  /\ ImperiumMetrics_init
  /\ NoRuns

\* orchestrator.py:100-101, 125 -- the state of a workflow before
\* execute_workflow has run for it.
NotStarted ==
  /\ pc = "start"
  /\ registered = FALSE
  /\ status = "pending"
  /\ results = NoResults
  /\ quality_report = "none"
  /\ metadata = {}
  /\ completed_task_ids = {}
  /\ ready_tasks = <<>>
  /\ run = [t \in TaskIds |-> "idle"]
  /\ batch_results = [t \in TaskIds |-> "none"]
  /\ idx = 0
  /\ fix_attempt = 0
  /\ calls = [t \in TaskIds |-> 0]
  /\ outcomes = [t \in TaskIds |-> <<>>]
  /\ raised = {}
  /\ active_tasks = {}
  /\ metrics = [t \in TaskIds |-> 0]
  /\ deadlocked = FALSE
  /\ abort_called = FALSE
  /\ exit = "none"
  /\ final = "none"

\* No call of execute_workflow is under way: the bus or a breaker is used
\* on its own.
NoWorkflow ==
  /\ tasks = <<>>
  /\ quality_gates = FALSE
  /\ require_board_approval = FALSE
  /\ NotStarted

Init ==
  /\ tasks \in Plans
  /\ quality_gates \in BOOLEAN
  /\ require_board_approval \in BOOLEAN
  /\ NotStarted
  /\ now = 0
  /\ MessageBus_init
  /\ CircuitBreaker_init(failure_threshold_default, recovery_timeout_default)
  /\ Elsewhere_init

\* execute_workflow returns the context by the return statement named how.
Return(how, st) ==
  /\ pc' = "returned"
  /\ exit' = how
  /\ final' = st

\* The top-level handler without the line that stores the error (a mutant).
Crash_NoError(place) ==
  /\ raised' = raised \cup {place}
  /\ status' = "failed"
  /\ results' = results
  /\ Return("crash", "failed")

\* orchestrator.py:197-202 -- the top-level handler, entered by an exception
\* raised at place.
Crash(place) ==
  /\ raised' = raised \cup {place}
  /\ status' = "failed"
  /\ results' = [results EXCEPT !.error = TRUE]
  /\ Return("crash", "failed")

\* orchestrator.py:100-101 -- the context is created and registered.
CreateContext ==
  /\ pc = "start"
  /\ registered' = TRUE
  /\ status' = "pending"
  /\ pc' = "planning"
  /\ UNCHANGED <<apart, params, batch, metric, returns, results, quality_report,
                 metadata, completed_task_ids, fix_attempt, calls, outcomes,
                 raised, deadlocked, abort_called>>

\* orchestrator.py:113-114, 204-217 -- planning, or an exception in it.
Planning ==
  /\ pc = "planning"
  /\ \/ /\ status' = "planning"
        /\ metadata' = metadata \cup {"planned_tasks"}
        /\ pc' = IF require_board_approval THEN "approval" ELSE "executing"
        /\ UNCHANGED <<results, returns, raised>>
     \/ /\ Crash("planning")
        /\ UNCHANGED metadata
  /\ UNCHANGED <<apart, params, batch, metric, registered, quality_report,
                 completed_task_ids, fix_attempt, calls, outcomes, deadlocked,
                 abort_called>>

\* BoardApproval with a rejection that sets the status to failed (a mutant).
BoardApproval_RejectFailed ==
  /\ pc = "approval"
  /\ \/ /\ metadata' = metadata \cup {"board_conditions", "board_director"}
        /\ pc' = "executing"
        /\ UNCHANGED <<status, results, returns, raised>>
     \/ /\ metadata' = metadata \cup {"board_rejection_reason"}
        /\ status' = "failed"
        /\ Return("rejected", "failed")
        /\ UNCHANGED <<results, raised>>
     \/ /\ Crash("approval")
        /\ UNCHANGED metadata
  /\ UNCHANGED <<apart, params, batch, metric, registered, quality_report,
                 completed_task_ids, fix_attempt, calls, outcomes, deadlocked,
                 abort_called>>

\* orchestrator.py:117-121, 291-322 -- the decision of the board the
\* coordinator holds in self.board, or an exception in the review.  The
\* BoardOfDirectors of board/directors.py approves every proposal; the
\* second disjunct is the coordinator's handling of a decision that is not
\* approved.
BoardApproval ==
  /\ pc = "approval"
  /\ \/ /\ metadata' = metadata \cup {"board_conditions", "board_director"}
        /\ pc' = "executing"
        /\ UNCHANGED <<status, results, returns, raised>>
     \/ /\ metadata' = metadata \cup {"board_rejection_reason"}
        /\ status' = "aborted"
        /\ Return("rejected", "aborted")
        /\ UNCHANGED <<results, raised>>
     \/ /\ Crash("approval")
        /\ UNCHANGED metadata
  /\ UNCHANGED <<apart, params, batch, metric, registered, quality_report,
                 completed_task_ids, fix_attempt, calls, outcomes, deadlocked,
                 abort_called>>

\* orchestrator.py:124-126
StartExecuting ==
  /\ pc = "executing"
  /\ status' = "executing"
  /\ completed_task_ids' = {}
  /\ pc' = "tick"
  /\ UNCHANGED <<apart, params, batch, metric, returns, registered, results,
                 quality_report, metadata, fix_attempt, calls, outcomes,
                 raised, deadlocked, abort_called>>

\* orchestrator.py:128-141, 219-224 -- one scheduling tick: leave the loop,
\* detect a deadlock, or hand the ready batch to asyncio.gather.  The
\* results of the previous batch are dead from here on and are cleared.
Tick ==
  /\ pc = "tick"
  /\ LET ready == Ids(get_ready_tasks(tasks, completed_task_ids)) IN
       \/ /\ is_workflow_complete(tasks, completed_task_ids)
          /\ pc' = "quality"
          /\ UNCHANGED <<status, deadlocked, ready_tasks, run>>
       \/ /\ ~is_workflow_complete(tasks, completed_task_ids)
          /\ ready = <<>>
          /\ status' = "failed"
          /\ deadlocked' = TRUE
          /\ pc' = "quality"
          /\ UNCHANGED <<ready_tasks, run>>
       \/ /\ ~is_workflow_complete(tasks, completed_task_ids)
          /\ ready # <<>>
          /\ ready_tasks' = ready
          /\ run' = [t \in TaskIds |-> IF t \in Range(ready) THEN "scheduled" ELSE "idle"]
          /\ pc' = "gather"
          /\ UNCHANGED <<status, deadlocked>>
  /\ batch_results' = [t \in TaskIds |-> "none"]
  /\ idx' = 0
  /\ UNCHANGED <<apart, params, metric, returns, registered, results, quality_report,
                 metadata, completed_task_ids, fix_attempt, calls, outcomes,
                 raised, abort_called>>

\* orchestrator.py:226-238, metrics.py:52-59 -- a dispatch of the batch
\* starts: the metric is opened and the executor is invoked.
StartTask(t) ==
  /\ pc = "gather"
  /\ run[t] = "scheduled"
  /\ run' = [run EXCEPT ![t] = "running"]
  /\ calls' = [calls EXCEPT ![t] = @ + 1]
  /\ active_tasks' = active_tasks \cup {t}
  /\ UNCHANGED <<apart, params, returns, pc, registered, status, results,
                 quality_report, metadata, completed_task_ids, ready_tasks,
                 batch_results, idx, fix_attempt, outcomes, raised, metrics,
                 deadlocked, abort_called>>

\* metrics.py:62-69 -- complete_task appends a record if the task was active.
complete_task(t) ==
  /\ active_tasks' = active_tasks \ {t}
  /\ metrics' = IF t \in active_tasks THEN [metrics EXCEPT ![t] = @ + 1] ELSE metrics

\* The executor called for task t at place returns or raises o.
ExecutorDid(t, o, place) ==
  /\ outcomes' = [outcomes EXCEPT ![t] = Append(@, ~Failed(o))]
  /\ raised' = IF o = "raise" THEN raised \cup {place} ELSE raised

\* orchestrator.py:238-261 -- the executor of a dispatch returns or raises;
\* gather (return_exceptions=True) keeps either as the task's result.
FinishTaskWith(t, outs) ==
  /\ pc = "gather"
  /\ run[t] = "running"
  /\ \E o \in outs :
       /\ batch_results' = [batch_results EXCEPT ![t] = o]
       /\ ExecutorDid(t, o, "dispatch")
  /\ run' = [run EXCEPT ![t] = "done"]
  /\ complete_task(t)
  /\ UNCHANGED <<apart, params, returns, pc, registered, status, results,
                 quality_report, metadata, completed_task_ids, ready_tasks,
                 idx, fix_attempt, calls, deadlocked, abort_called>>

\* The dispatch of a plain executor.
FinishTask(t) == FinishTaskWith(t, Outcomes)

\* A gather that resumes its caller at the first finished dispatch (a mutant).
GatherDone_Any == \E t \in Range(ready_tasks) : run[t] = "done"

\* A gather that waits for every task id, dispatched or not (a mutant).
GatherDone_AllIds == \A t \in TaskIds : run[t] = "done"

\* orchestrator.py:221-224 -- asyncio.gather resumes its caller when every
\* dispatch of the batch has returned or raised.
GatherDone == \A t \in Range(ready_tasks) : run[t] = "done"

Gathered ==
  /\ pc = "gather"
  /\ GatherDone
  /\ pc' = "process"
  /\ idx' = 1
  /\ UNCHANGED <<apart, params, metric, returns, registered, status, results,
                 quality_report, metadata, completed_task_ids, ready_tasks,
                 run, batch_results, fix_attempt, calls, outcomes, raised,
                 deadlocked, abort_called>>

\* MarkCompleted without the line that records the result (a mutant).
MarkCompleted_NoResult(t, r) ==
  /\ completed_task_ids' = completed_task_ids \cup {t}
  /\ results' = results

\* orchestrator.py:171-172, 183-184
MarkCompleted(t, r) ==
  /\ completed_task_ids' = completed_task_ids \cup {t}
  /\ results' = [results EXCEPT !.task[t] = r]

\* orchestrator.py:143-152, 181-184 -- one step of the zip loop over the
\* batch and its results; after the last one the while loop is re-entered.
ProcessResult ==
  /\ pc = "process"
  /\ \/ /\ idx > Len(ready_tasks)
        /\ pc' = "tick"
        /\ UNCHANGED <<completed_task_ids, results, idx, fix_attempt>>
     \/ /\ idx <= Len(ready_tasks)
        /\ IsFailure(batch_results[ready_tasks[idx]])
        /\ fix_attempt' = 0
        /\ pc' = "debug"
        /\ UNCHANGED <<completed_task_ids, results, idx>>
     \/ /\ idx <= Len(ready_tasks)
        /\ ~IsFailure(batch_results[ready_tasks[idx]])
        /\ MarkCompleted(ready_tasks[idx], batch_results[ready_tasks[idx]])
        /\ idx' = idx + 1
        /\ UNCHANGED <<pc, fix_attempt>>
  /\ UNCHANGED <<apart, params, metric, returns, registered, status, quality_report,
                 metadata, ready_tasks, run, batch_results, calls, outcomes,
                 raised, deadlocked, abort_called>>

\* RetryTask allowing one attempt more (a mutant).
RetryTask_OneMore ==
  /\ pc = "debug"
  /\ fix_attempt <= max_retries
  /\ fix_attempt' = fix_attempt + 1
  /\ calls' = [calls EXCEPT ![ready_tasks[idx]] = @ + 1]
  /\ active_tasks' = active_tasks \cup {ready_tasks[idx]}
  /\ pc' = "retry"
  /\ UNCHANGED <<apart, params, batch, returns, registered, status, results,
                 quality_report, metadata, completed_task_ids, outcomes,
                 raised, metrics, deadlocked, abort_called>>

\* orchestrator.py:154-167 -- another fix attempt: the failure is analysed
\* and the task is run again.
RetryTask ==
  /\ pc = "debug"
  /\ fix_attempt < max_retries
  /\ fix_attempt' = fix_attempt + 1
  /\ calls' = [calls EXCEPT ![ready_tasks[idx]] = @ + 1]
  /\ active_tasks' = active_tasks \cup {ready_tasks[idx]}
  /\ pc' = "retry"
  /\ UNCHANGED <<apart, params, batch, returns, registered, status, results,
                 quality_report, metadata, completed_task_ids, outcomes,
                 raised, metrics, deadlocked, abort_called>>

\* GiveUp without its return statement: the zip loop goes on (a mutant).
GiveUp_NoReturn ==
  /\ pc = "debug"
  /\ ~(fix_attempt < max_retries)
  /\ status' = "failed"
  /\ idx' = idx + 1
  /\ pc' = "process"
  /\ UNCHANGED <<apart, params, metric, returns, registered, results, quality_report,
                 metadata, completed_task_ids, ready_tasks, run,
                 batch_results, fix_attempt, calls, outcomes, raised,
                 deadlocked, abort_called>>

\* orchestrator.py:177-180 -- the attempts are exhausted without a fix:
\* the status becomes failed and execute_workflow returns.
GiveUp ==
  /\ pc = "debug"
  /\ ~(fix_attempt < max_retries)
  /\ status' = "failed"
  /\ Return("failfast", "failed")
  /\ UNCHANGED <<apart, params, batch, metric, registered, results, quality_report,
                 metadata, completed_task_ids, fix_attempt, calls, outcomes,
                 raised, deadlocked, abort_called>>

\* orchestrator.py:165-175, 238-261 -- the retried executor call returns or
\* raises: a fix completes the task, anything else goes round the loop.
RetryReturnWith(outs) ==
  /\ pc = "retry"
  /\ complete_task(ready_tasks[idx])
  /\ \E o \in outs :
       /\ ExecutorDid(ready_tasks[idx], o, "retry")
       /\ \/ /\ IsFixed(o)
             /\ MarkCompleted(ready_tasks[idx], o)
             /\ idx' = idx + 1
             /\ pc' = "process"
          \/ /\ ~IsFixed(o)
             /\ pc' = "debug"
             /\ UNCHANGED <<completed_task_ids, results, idx>>
  /\ UNCHANGED <<apart, params, returns, registered, status, quality_report,
                 metadata, ready_tasks, run, batch_results, fix_attempt,
                 calls, deadlocked, abort_called>>

\* The retried call of a plain executor.
RetryReturn == RetryReturnWith(Outcomes)

\* QualityCheck going on to completion after a failed report (a mutant).
QualityCheck_IgnoreReport ==
  /\ pc = "quality"
  /\ \/ /\ ~quality_gates
        /\ pc' = "completion"
        /\ UNCHANGED <<status, quality_report, results, returns, raised>>
     \/ /\ quality_gates
        /\ status' = "quality_check"
        /\ quality_report' = "passed"
        /\ pc' = "completion"
        /\ UNCHANGED <<results, returns, raised>>
     \/ /\ quality_gates
        /\ status' = "failed"
        /\ quality_report' = "failed"
        /\ pc' = "completion"
        /\ UNCHANGED <<results, returns, raised>>
     \/ /\ quality_gates
        /\ Crash("quality")
        /\ UNCHANGED quality_report
  /\ UNCHANGED <<apart, params, batch, metric, registered, metadata,
                 completed_task_ids, fix_attempt, calls, outcomes, deadlocked,
                 abort_called>>

\* orchestrator.py:186-192, 263-283 -- the quality gates, when supplied: the
\* report passes, fails, or the gate runner raises.
QualityCheck ==
  /\ pc = "quality"
  /\ \/ /\ ~quality_gates
        /\ pc' = "completion"
        /\ UNCHANGED <<status, quality_report, results, returns, raised>>
     \/ /\ quality_gates
        /\ status' = "quality_check"
        /\ quality_report' = "passed"
        /\ pc' = "completion"
        /\ UNCHANGED <<results, returns, raised>>
     \/ /\ quality_gates
        /\ status' = "failed"
        /\ quality_report' = "failed"
        /\ results' = [results EXCEPT !.note = TRUE]
        /\ Return("gatefail", "failed")
        /\ UNCHANGED raised
     \/ /\ quality_gates
        /\ Crash("quality")
        /\ UNCHANGED quality_report
  /\ UNCHANGED <<apart, params, batch, metric, registered, metadata,
                 completed_task_ids, fix_attempt, calls, outcomes, deadlocked,
                 abort_called>>

\* orchestrator.py:194-195, 202, 285-289
Completion ==
  /\ pc = "completion"
  /\ status' = "completed"
  /\ Return("normal", "completed")
  /\ UNCHANGED <<apart, params, batch, metric, registered, results, quality_report,
                 metadata, completed_task_ids, fix_attempt, calls, outcomes,
                 raised, deadlocked, abort_called>>

\* execute_workflow is suspended on executors (the gathered batch, a retried
\* call), or has returned: only then can another coroutine run.
Suspended == pc \in {"gather", "retry", "returned"}

\* orchestrator.py:328-335 -- abort_workflow for this workflow's id, called
\* any number of times.
abort_workflow ==
  /\ Suspended
  /\ registered
  /\ status' = "aborted"
  /\ abort_called' = TRUE
  /\ UNCHANGED <<apart, params, batch, metric, returns, pc, registered, results,
                 quality_report, metadata, completed_task_ids, fix_attempt,
                 calls, outcomes, raised, deadlocked>>

\* The steps of execute_workflow and of the dispatches it started.
Step ==
  \/ CreateContext
  \/ Planning
  \/ BoardApproval
  \/ StartExecuting
  \/ Tick
  \/ \E t \in TaskIds : StartTask(t)
  \/ \E t \in TaskIds : FinishTask(t)
  \/ Gathered
  \/ ProcessResult
  \/ RetryTask
  \/ GiveUp
  \/ RetryReturn
  \/ QualityCheck
  \/ Completion

Next == Step \/ abort_workflow

Spec == Init /\ [][Next]_vars

\* Every executor and collaborator call eventually returns or raises, and
\* the event loop runs every coroutine that can run.
FairSpec == Spec /\ WF_vars(Step)

\* The steps of execute_workflow when the executors are IntegrationBots,
\* whose results may be degraded.
IntegrationStep ==
  \/ CreateContext
  \/ Planning
  \/ BoardApproval
  \/ StartExecuting
  \/ Tick
  \/ \E t \in TaskIds : StartTask(t)
  \/ \E t \in TaskIds : FinishTaskWith(t, IntegrationOutcomes)
  \/ Gathered
  \/ ProcessResult
  \/ RetryTask
  \/ GiveUp
  \/ RetryReturnWith(IntegrationOutcomes)
  \/ QualityCheck
  \/ Completion

IntegrationNext == IntegrationStep \/ abort_workflow

IntegrationSpec == Init /\ [][IntegrationNext]_vars

TypeOK ==
  /\ status \in WorkflowStatus
  /\ completed_task_ids \subseteq TaskIds
  /\ fix_attempt \in 0..max_retries
  /\ \A t \in TaskIds : metrics[t] <= calls[t] /\ Len(outcomes[t]) = metrics[t]

(***************************************************************************)
(* MessageBus (src/src/core/protocol.py)                                   *)
(*                                                                         *)
(* send, receive and subscribe hold no await: each call runs from start to *)
(* end on the event loop and is one action.  A call that reads the clock   *)
(* reads a value that is not before the previous reading.                  *)
(***************************************************************************)
\* The messages a sender builds at clock reading t as the message with the
\* given id (protocol.py:44-60): the timestamp is the time of creation.
Messages(id, t) ==
  [message_id : {id}, receiver : Agents, priority : Priority,
   timestamp : {t}, ttl_seconds : 0..MaxTtl]

\* protocol.py:62-65 -- is_expired, at clock reading t.
is_expired(m, t) == t - m.timestamp > m.ttl_seconds

Reverse(q) == [i \in 1..Len(q) |-> q[Len(q) + 1 - i]]

\* A sort by priority that turns round the messages of equal priority (a
\* mutant).
sort_Unstable(q) ==
  LET P(p) == LET Has(m) == m.priority = p IN Reverse(SelectSeq(q, Has))
  IN  P(CRITICAL) \o P(HIGH) \o P(MEDIUM) \o P(LOW)

\* protocol.py:115 -- list.sort(key=priority, reverse=True): highest
\* priority first; the sort is stable, so messages of equal priority keep
\* their order.
sort(q) ==
  LET P(p) == LET Has(m) == m.priority = p IN SelectSeq(q, Has)
  IN  P(CRITICAL) \o P(HIGH) \o P(MEDIUM) \o P(LOW)

\* The insertion without the sort (a mutant).
Enqueue_NoSort(q, m) == Append(q, m)

\* protocol.py:113-115 -- the message is appended and the queue sorted.
Enqueue(q, m) == sort(Append(q, m))

\* A notification that stops at the first listener that raises (a mutant).
notify_subscribers_StopAtRaise(m, bad) ==
  LET subs == subscribers[m.receiver]
      stop == {i \in 1..Len(subs) : subs[i] \in bad}
  IN  IF stop = {} THEN subs
      ELSE SubSeq(subs, 1, CHOOSE i \in stop : \A j \in stop : i <= j)

\* protocol.py:146-152 -- _notify_subscribers: the listeners called for
\* message m, in order, when the listeners in bad raise: an exception is
\* caught and the loop goes on.
notify_subscribers(m, bad) == subscribers[m.receiver]

\* protocol.py:97-121 -- send, for a message whose priority is one of
\* prios: a CRITICAL message goes to the listeners of its receiver, any
\* other message into its receiver's queue.
send(prios) ==
  /\ Len(history) < MaxMsgs
  /\ \E t \in now..MaxTime : \E m \in Messages(Len(history) + 1, t) :
       /\ m.priority \in prios
       /\ now' = t
       /\ history' = Append(history, m.message_id)
       /\ \/ /\ m.priority = CRITICAL
             /\ \E bad \in SUBSET Range(subscribers[m.receiver]) :
                  last_call' = [op |-> "send", agent |-> m.receiver,
                                msg |-> <<m>>,
                                invoked |-> notify_subscribers(m, bad),
                                failed |-> bad]
             /\ notified' = notified \cup {m.message_id}
             /\ UNCHANGED queues
          \/ /\ m.priority # CRITICAL
             /\ queues' = [queues EXCEPT ![m.receiver] = Enqueue(@, m)]
             /\ last_call' = [op |-> "send", agent |-> m.receiver,
                              msg |-> <<m>>, invoked |-> <<>>,
                              failed |-> {}]
             /\ UNCHANGED notified
  /\ UNCHANGED <<subscribers, delivered, purged, breaker, workflow, elsewhere>>

\* protocol.py:130 -- the messages of the queue that are not expired.
unexpired(q, t) == LET Live(m) == ~is_expired(m, t) IN SelectSeq(q, Live)

\* A pop that leaves the head in the queue (a mutant).
pop_Keep(q) == q

\* protocol.py:135 -- queue.pop(0): what is left of the queue.
pop(q) == Tail(q)

\* protocol.py:123-140 -- receive: the expired messages are dropped, then
\* the head of the queue is taken out and returned, or None.
receive(a) ==
  \E t \in now..MaxTime :
    LET queue == unexpired(queues[a], t)
        gone  == {m.message_id : m \in {x \in Range(queues[a]) : is_expired(x, t)}}
    IN  /\ now' = t
        /\ purged' = purged \cup gone
        /\ \/ /\ queue = <<>>
              /\ queues' = [queues EXCEPT ![a] = <<>>]
              /\ last_call' = [op |-> "receive", agent |-> a, msg |-> <<>>,
                               invoked |-> <<>>, failed |-> {}]
              /\ UNCHANGED delivered
           \/ /\ queue # <<>>
              /\ queues' = [queues EXCEPT ![a] = pop(queue)]
              /\ delivered' = [delivered EXCEPT ![Head(queue).message_id] = Append(@, a)]
              /\ last_call' = [op |-> "receive", agent |-> a,
                               msg |-> <<Head(queue)>>, invoked |-> <<>>,
                               failed |-> {}]
        /\ UNCHANGED <<history, subscribers, notified, breaker, workflow, elsewhere>>

\* The listeners subscribed so far, for any agent.
Subscribed == UNION {Range(subscribers[a]) : a \in Agents}

\* protocol.py:142-144 -- subscribe: one more listener for agent a.
subscribe(a) ==
  /\ Cardinality(Subscribed) < MaxListeners
  /\ subscribers' = [subscribers EXCEPT ![a] = Append(@, Cardinality(Subscribed) + 1)]
  /\ last_call' = [op |-> "subscribe", agent |-> a, msg |-> <<>>,
                   invoked |-> <<>>, failed |-> {}]
  /\ UNCHANGED <<now, queues, history, delivered, purged, notified, breaker,
                 workflow, elsewhere>>

BusInit ==
  /\ NoWorkflow
  /\ now = 0
  /\ MessageBus_init
  /\ CircuitBreaker_init(failure_threshold_default, recovery_timeout_default)
  /\ Elsewhere_init

\* The bus as a mailbox: messages of every priority are sent and received;
\* no listener is subscribed.
BusNext ==
  \/ send(Priority)
  \/ \E a \in Agents : receive(a)

BusSpec == BusInit /\ [][BusNext]_vars

\* The bus as an alarm: listeners subscribe and CRITICAL messages are sent.
NotifyNext ==
  \/ send({CRITICAL})
  \/ \E a \in Agents : subscribe(a)

NotifySpec == BusInit /\ [][NotifyNext]_vars

(***************************************************************************)
(* CircuitBreaker (src/src/agents/integrationbot.py)                       *)
(***************************************************************************)
\* record_failure opening the breaker only when the counter is exactly at
\* the threshold (a mutant).
record_failure_Exact ==
  /\ failure_count < MaxFailures
  /\ \E t \in now..MaxTime :
       /\ now' = t
       /\ last_failure_time' = t
  /\ failure_count' = failure_count + 1
  /\ state' = IF failure_count + 1 = failure_threshold THEN "open" ELSE state
  /\ streak' = streak + 1
  /\ answer' = [op |-> "record_failure", was |-> state, ret |-> TRUE]
  /\ UNCHANGED <<failure_threshold, recovery_timeout, bus, workflow, elsewhere>>

\* integrationbot.py:35-40
record_failure ==
  /\ failure_count < MaxFailures
  /\ \E t \in now..MaxTime :
       /\ now' = t
       /\ last_failure_time' = t
  /\ failure_count' = failure_count + 1
  /\ state' = IF failure_count + 1 >= failure_threshold THEN "open" ELSE state
  /\ streak' = streak + 1
  /\ answer' = [op |-> "record_failure", was |-> state, ret |-> TRUE]
  /\ UNCHANGED <<failure_threshold, recovery_timeout, bus, workflow, elsewhere>>

\* record_success without the reset of the counter (a mutant).
record_success_NoReset ==
  /\ state' = "closed"
  /\ streak' = 0
  /\ answer' = [op |-> "record_success", was |-> state, ret |-> TRUE]
  /\ UNCHANGED <<failure_threshold, recovery_timeout, failure_count,
                 last_failure_time, now, bus, workflow, elsewhere>>

\* integrationbot.py:42-45
record_success ==
  /\ failure_count' = 0
  /\ state' = "closed"
  /\ streak' = 0
  /\ answer' = [op |-> "record_success", was |-> state, ret |-> TRUE]
  /\ UNCHANGED <<failure_threshold, recovery_timeout, last_failure_time, now,
                 bus, workflow, elsewhere>>

\* The recovery test with a strict comparison (a mutant).
Recovered_Strict(t) == t - last_failure_time > recovery_timeout

\* integrationbot.py:53-54 -- at clock reading t the recovery timeout has
\* passed since the last failure.
Recovered(t) == t - last_failure_time >= recovery_timeout

\* integrationbot.py:47-59
can_execute ==
  /\ \/ /\ state = "closed"
        /\ answer' = [op |-> "can_execute", was |-> state, ret |-> TRUE]
        /\ UNCHANGED <<state, now>>
     \/ /\ state = "open"
        /\ \E t \in now..MaxTime :
             /\ now' = t
             /\ IF Recovered(t)
                  THEN /\ state' = "half_open"
                       /\ answer' = [op |-> "can_execute", was |-> state, ret |-> TRUE]
                  ELSE /\ state' = state
                       /\ answer' = [op |-> "can_execute", was |-> state, ret |-> FALSE]
     \/ /\ state = "half_open"
        /\ answer' = [op |-> "can_execute", was |-> state, ret |-> TRUE]
        /\ UNCHANGED <<state, now>>
  /\ UNCHANGED <<failure_threshold, recovery_timeout, failure_count,
                 last_failure_time, streak, bus, workflow, elsewhere>>

\* A breaker built with a threshold and a timeout of the caller's choice.
BreakerInit ==
  /\ NoWorkflow
  /\ now = 0
  /\ MessageBus_init
  /\ \E threshold \in 1..MaxThreshold : \E timeout \in 0..MaxTimeout :
       CircuitBreaker_init(threshold, timeout)
  /\ Elsewhere_init

BreakerNext ==
  \/ record_failure
  \/ record_success
  \/ can_execute

BreakerSpec == BreakerInit /\ [][BreakerNext]_vars

(***************************************************************************)
(* IntegrationBot (src/src/agents/integrationbot.py)                       *)
(***************************************************************************)
\* integrationbot.py:232-253 -- _graceful_degradation for a task whose
\* "service" key is s; the placeholder carries no data.
graceful_degradation(s) ==
  LET cached == fallback_cache[degradation_service(s)]
  IN  IF cached # NoData
        THEN [source |-> "cache", data |-> cached, stale |-> TRUE]
        ELSE [source |-> "default", data |-> NoData, stale |-> TRUE]

\* integrationbot.py:100-158 -- one call of execute, and the calls follow one
\* another.  validated: _validate_contract returned (it raised otherwise);
\* failures: the attempts of _execute_with_retry that raised before one
\* returned, MAX_RETRIES when none returned; t1, t2: the clock as can_execute
\* and record_failure read it.  The data of a successful call is its number.
execute ==
  /\ result.call < MaxExecutes
  /\ \E validated \in BOOLEAN : \E failures \in 0..MAX_RETRIES :
     \E t1 \in now..MaxTime : \E t2 \in t1..MaxTime :
       LET call == result.call + 1
           admitted == IF state = "open" THEN "half_open" ELSE state
           count == failure_count + 1
           tripped == IF count >= failure_threshold THEN "open" ELSE admitted
       IN  \/ /\ ~validated
              /\ result' = [PendingResult EXCEPT !.call = call,
                                                 !.status = "failed"]
              /\ UNCHANGED <<now, breaker, fallback_cache>>
           \/ /\ validated
              /\ state = "open"
              /\ ~Recovered(t1)
              /\ now' = t1
              /\ answer' = [op |-> "can_execute", was |-> state, ret |-> FALSE]
              /\ result' = [call |-> call, status |-> "degraded",
                            strategy |-> "graceful_degradation",
                            attempts |-> 0, recorded |-> "none",
                            fallback |-> graceful_degradation(service)]
              /\ UNCHANGED <<failure_threshold, recovery_timeout, state,
                             failure_count, last_failure_time, streak,
                             fallback_cache>>
           \/ /\ validated
              /\ state = "open" => Recovered(t1)
              /\ failures < MAX_RETRIES
              /\ now' = t1
              /\ failure_count' = 0
              /\ state' = "closed"
              /\ streak' = 0
              /\ answer' = [op |-> "record_success", was |-> admitted,
                            ret |-> TRUE]
              /\ fallback_cache' =
                   [fallback_cache EXCEPT ![service_name(service)] = call]
              /\ result' = [call |-> call, status |-> "completed",
                            strategy |-> "none", attempts |-> failures + 1,
                            recorded |-> "success", fallback |-> NoFallback]
              /\ UNCHANGED <<failure_threshold, recovery_timeout,
                             last_failure_time>>
           \/ /\ validated
              /\ state = "open" => Recovered(t1)
              /\ failures = MAX_RETRIES
              /\ now' = t2
              /\ last_failure_time' = t2
              /\ failure_count' = count
              /\ state' = tripped
              /\ streak' = streak + 1
              /\ answer' = [op |-> "record_failure", was |-> admitted,
                            ret |-> TRUE]
              /\ result' =
                   IF tripped = "open"
                     THEN [call |-> call, status |-> "degraded",
                           strategy |-> "circuit_breaker_to_fallback",
                           attempts |-> MAX_RETRIES, recorded |-> "failure",
                           fallback |-> graceful_degradation(service)]
                     ELSE [call |-> call, status |-> "failed",
                           strategy |-> "retry_exhausted",
                           attempts |-> MAX_RETRIES, recorded |-> "failure",
                           fallback |-> NoFallback]
              /\ UNCHANGED <<failure_threshold, recovery_timeout,
                             fallback_cache>>
  /\ UNCHANGED <<service, bus, workflow, board, pair>>

\* One IntegrationBot, given tasks for one service, with the breaker
\* get_or_create_breaker builds for it (integrationbot.py:94-98).
BotInit ==
  /\ NoWorkflow
  /\ now = 0
  /\ MessageBus_init
  /\ CircuitBreaker_init(failure_threshold_default, recovery_timeout_default)
  /\ service \in Services
  /\ IntegrationBot_init
  /\ BoardOfDirectors_init
  /\ ImperiumMetrics_init
  /\ NoRuns

BotNext == execute

BotSpec == BotInit /\ [][BotNext]_vars

(***************************************************************************)
(* WorkflowEngine on its own: the scheduling loop                          *)
(***************************************************************************)
\* The plan p with the "dependencies" field left out of the tasks of S.
Bare(p, S) == [i \in 1..Len(p) |-> IF i \in S THEN [id |-> p[i].id] ELSE p[i]]

\* The plans, and the same plans with the field left out of some of the
\* tasks that have no dependencies.
BarePlans ==
  UNION { { Bare(p, S) :
              S \in SUBSET {i \in 1..Len(p) : p[i].dependencies = {}} } :
          p \in Plans }

\* What the scheduling loop leaves alone.
unscheduled == <<run, batch_results, idx, metric, returns, registered, status,
                 results, quality_report, metadata, fix_attempt, calls,
                 outcomes, raised, deadlocked, abort_called>>

\* workflow_engine.py:20-34 -- a call of get_ready_tasks with the plan and
\* the completed set; the caller keeps what it returned.
CallReadyTasks ==
  /\ pc = "start"
  /\ ~is_workflow_complete(tasks, completed_task_ids)
  /\ ready_tasks' = Ids(get_ready_tasks(tasks, completed_task_ids))
  /\ pc' = "fold"
  /\ UNCHANGED <<apart, params, completed_task_ids, unscheduled>>

\* The caller keeping only the ids returned last as the completed set (a
\* mutant).
FoldCompleted_Forget ==
  /\ pc = "fold"
  /\ completed_task_ids' = Range(ready_tasks)
  /\ pc' = "start"
  /\ UNCHANGED <<apart, params, ready_tasks, unscheduled>>

\* The caller adds the ids of the returned tasks to the completed set.
FoldCompleted ==
  /\ pc = "fold"
  /\ completed_task_ids' = completed_task_ids \cup Range(ready_tasks)
  /\ pc' = "start"
  /\ UNCHANGED <<apart, params, ready_tasks, unscheduled>>

\* Any plan and any completed set to start from.
EngineInit ==
  /\ tasks \in BarePlans
  /\ quality_gates = FALSE
  /\ require_board_approval = FALSE
  /\ pc = "start"
  /\ registered = FALSE
  /\ status = "pending"
  /\ results = NoResults
  /\ quality_report = "none"
  /\ metadata = {}
  /\ completed_task_ids \in SUBSET TaskIds
  /\ ready_tasks = <<>>
  /\ run = [t \in TaskIds |-> "idle"]
  /\ batch_results = [t \in TaskIds |-> "none"]
  /\ idx = 0
  /\ fix_attempt = 0
  /\ calls = [t \in TaskIds |-> 0]
  /\ outcomes = [t \in TaskIds |-> <<>>]
  /\ raised = {}
  /\ active_tasks = {}
  /\ metrics = [t \in TaskIds |-> 0]
  /\ deadlocked = FALSE
  /\ abort_called = FALSE
  /\ exit = "none"
  /\ final = "none"
  /\ now = 0
  /\ MessageBus_init
  /\ CircuitBreaker_init(failure_threshold_default, recovery_timeout_default)
  /\ Elsewhere_init

EngineNext ==
  \/ CallReadyTasks
  \/ FoldCompleted

EngineSpec == EngineInit /\ [][EngineNext]_vars

\* The loop goes on as long as it can.
FairEngineSpec == EngineSpec /\ WF_vars(EngineNext)

(***************************************************************************)
(* BoardOfDirectors (src/src/board/directors.py)                           *)
(***************************************************************************)
\* directors.py:99-107; the reason is kept by its first words, the
\* conditions as a set.
coo_review(p) ==
  [approved |-> TRUE, director |-> "coo", reason |-> "Low complexity",
   conditions |-> {}, risk_level |-> "low"]

\* directors.py:109-121
cpo_review(p) ==
  [approved |-> TRUE, director |-> "cpo", reason |-> "Medium complexity",
   conditions |-> {"progress_report_on_completion"} \cup
                  (IF p.agents_required > 2
                     THEN {"coordination_checkpoint"} ELSE {}),
   risk_level |-> "medium"]

\* _cto_review rating every proposal it sees medium (a mutant).
cto_review_Medium(p) ==
  [approved |-> TRUE, director |-> "cto", reason |-> "High complexity",
   conditions |-> {"daily_checkpoints", "code_review_required"} \cup
                  (IF p.touches_external_services
                     THEN {"integration_test_mandatory"} ELSE {}) \cup
                  (IF p.touches_database
                     THEN {"migration_rollback_plan"} ELSE {}),
   risk_level |-> "medium"]

\* directors.py:123-140
cto_review(p) ==
  [approved |-> TRUE, director |-> "cto", reason |-> "High complexity",
   conditions |-> {"daily_checkpoints", "code_review_required"} \cup
                  (IF p.touches_external_services
                     THEN {"integration_test_mandatory"} ELSE {}) \cup
                  (IF p.touches_database
                     THEN {"migration_rollback_plan"} ELSE {}),
   risk_level |-> IF p.touches_database THEN "high" ELSE "medium"]

\* directors.py:142-161
full_board_review(p) ==
  [approved |-> TRUE, director |-> "cto", reason |-> "Critical complexity",
   conditions |-> {"daily_checkpoints", "rollback_plan_mandatory",
                   "security_audit_required", "cto_final_sign_off",
                   "post_mortem_on_completion"} \cup
                  (IF p.touches_external_services
                     THEN {"penetration_test_before_deploy"} ELSE {}),
   risk_level |-> "critical"]

\* directors.py:68-97
review_workflow ==
  /\ Len(decision_history) < MaxReviews
  /\ \E p \in Proposals :
       LET decision == IF p.complexity <= 3 THEN coo_review(p)
                       ELSE IF p.complexity <= 6 THEN cpo_review(p)
                       ELSE IF p.complexity <= 8 THEN cto_review(p)
                       ELSE full_board_review(p)
       IN  /\ proposal' = p
           /\ decision_history' = Append(decision_history, decision)
  /\ UNCHANGED <<now, bus, breaker, bot, pair, workflow>>

\* A board on its own, reviewing proposals one after another.
BoardInit ==
  /\ NoWorkflow
  /\ now = 0
  /\ MessageBus_init
  /\ CircuitBreaker_init(failure_threshold_default, recovery_timeout_default)
  /\ Elsewhere_init

BoardNext == review_workflow

BoardSpec == BoardInit /\ [][BoardNext]_vars

(***************************************************************************)
(* Two runs on one coordinator (src/src/core/orchestrator.py, metrics.py)   *)
(***************************************************************************)
\* orchestrator.py:229-235, metrics.py:52-59 -- run w enters
\* _execute_single_task for its next task: start_task files a new TaskMetric
\* under the task id, over whatever was filed there, and the run waits for
\* the executor.
EnterSingleTask(w) ==
  /\ running[w].at = "idle"
  /\ running[w].task_id <= MaxTasks
  /\ started' = [started EXCEPT ![running[w].task_id] = w]
  /\ running' = [running EXCEPT ![w].at = "awaiting"]
  /\ UNCHANGED <<finished, now, bus, breaker, bot, board, workflow>>

\* orchestrator.py:237-258, metrics.py:62-78 -- the executor of run w
\* returned (ok) or raised: complete_task takes the TaskMetric filed under
\* the task id, if there is one, sets its success and appends it to the
\* records; the run goes on to its next task.
LeaveSingleTask(w) ==
  /\ running[w].at = "awaiting"
  /\ \E ok \in BOOLEAN :
       LET id == running[w].task_id
           popped == started[id]
       IN  /\ started' = [started EXCEPT ![id] = 0]
           /\ finished' =
                IF popped # 0
                  THEN Append(finished, [task_id |-> id, started_by |-> popped,
                                         completed_by |-> w, success |-> ok])
                  ELSE finished
           /\ running' = [running EXCEPT ![w] =
                           [task_id |-> id + 1, at |-> "idle",
                            outcome |-> IF ok THEN "returned" ELSE "raised"]]
  /\ UNCHANGED <<now, bus, breaker, bot, board, workflow>>

\* Two runs whose plans use the task ids 1..MaxTasks, one task at a time.
PairInit ==
  /\ NoWorkflow
  /\ now = 0
  /\ MessageBus_init
  /\ CircuitBreaker_init(failure_threshold_default, recovery_timeout_default)
  /\ Elsewhere_init

PairNext == \E w \in Runs : EnterSingleTask(w) \/ LeaveSingleTask(w)

PairSpec == PairInit /\ [][PairNext]_vars

(***************************************************************************)
(* The claims                                                              *)
(***************************************************************************)
Returned == pc = "returned"

InPlan(t) == t \in 1..Len(tasks)

\* The executor of task t is being invoked: as a dispatch of the gathered
\* batch, or as the retried call of the debug loop.
Invoked(t) ==
  \/ run[t] = "running"
  \/ pc = "retry" /\ ready_tasks[idx] = t

\* C1: if some scheduling tick found no ready task while the task set was
\* not complete, the status execute_workflow returns with is failed.
C1_DeadlockFails == (Returned /\ deadlocked) => final = "failed"

\* C2: whenever a task's executor is invoked (in a batch or in a retry),
\* every dependency id of the task is in the completed set and has a
\* recorded non-failure result.
C2_InvokedOnlyWhenDepsCompleted ==
  \A t \in TaskIds : Invoked(t) =>
    /\ InPlan(t)
    /\ \A d \in Deps(t) :
         /\ d \in completed_task_ids
         /\ results.task[d] \notin {"none", "failed", "raise"}

\* A task with a dependency is being invoked.
C2_Witness ==
  \E t \in TaskIds : Invoked(t) /\ InPlan(t) /\ Deps(t) # {} /\ calls[t] > 1

\* Task t's executor failed on the first dispatch and on all max_retries
\* fix attempts.
Exhausted(t) ==
  /\ Len(outcomes[t]) = max_retries + 1
  /\ \A i \in 1..Len(outcomes[t]) : ~outcomes[t][i]

\* C3: once a task's executor has failed on all 3 fix attempts, the
\* coordinator only returns, with status failed; no batch is scheduled and
\* no executor is invoked after that.
C3_ExhaustionFailsFast ==
  /\ [](\A t \in TaskIds : Exhausted(t) =>
          /\ pc \in {"debug", "returned"}
          /\ pc = "returned" => (final = "failed" /\ exit = "failfast"))
  /\ [][(\E t \in TaskIds : Exhausted(t)) =>
          (calls' = calls /\ run' = run /\ ready_tasks' = ready_tasks)]_vars

C3_Witness == \E t \in TaskIds : Exhausted(t) /\ Returned /\ final = "failed"

\* No cause of failure other than a retried task: no task exhausted its
\* attempts, the quality gates did not fail and no collaborator raised.
NothingElseFailed ==
  /\ \A u \in TaskIds : ~Exhausted(u)
  /\ quality_report # "failed"
  /\ raised \cap {"planning", "approval", "quality"} = {}

\* C4: a task whose executor fails twice and succeeds on its third call is
\* completed, its result is recorded and 3 executions are recorded for it;
\* the workflow then returns with status completed (nothing else failing).
C4_ThirdAttemptSucceeds ==
  \A t \in TaskIds : outcomes[t] = <<FALSE, FALSE, TRUE>> =>
    /\ t \in completed_task_ids
    /\ results.task[t] = "completed"
    /\ metrics[t] = 3
    /\ (Returned /\ NothingElseFailed) => final = "completed"

C4_Witness ==
  \E t \in TaskIds :
    outcomes[t] = <<FALSE, FALSE, TRUE>> /\ Returned /\ final = "completed"

\* C5: when execute_workflow returns, every task whose first dispatch
\* returned a non-failure result is completed and has its result recorded.
C5_FirstSuccessRecorded ==
  Returned =>
    \A t \in TaskIds : (Len(outcomes[t]) >= 1 /\ outcomes[t][1]) =>
      (t \in completed_task_ids /\ results.task[t] # "none")

Terminal == {"completed", "failed", "aborted"}

\* C6: a status that is completed, failed or aborted never changes again.
C6_TerminalIsFinal == [][(status \in Terminal) => (status' = status)]_vars

\* C7: once abort_workflow has set the status to aborted, the status stays
\* aborted whatever the coordinator's run does afterwards.
C7_AbortSticks == [][(abort_called /\ status = "aborted") => (status' = "aborted")]_vars

\* C8: a dispatch is outstanding only while the coordinator waits in gather,
\* so no retry and no later tick runs beside it; the dispatches are those
\* of the current batch, and the batch is all the tasks ready at its tick.
C8_BatchesNotInterleaved ==
  /\ \A t \in TaskIds : run[t] \in {"scheduled", "running"} => pc = "gather"
  /\ \A t \in TaskIds : run[t] # "idle" => t \in Range(ready_tasks)
  /\ pc = "gather" =>
       /\ Range(ready_tasks) = {t \in TaskIds : run[t] # "idle"}
       /\ ready_tasks = Ids(get_ready_tasks(tasks, completed_task_ids))

\* One dispatch of a batch has finished while another is still running.
C8_Witness ==
  \E t, u \in TaskIds : run[t] = "done" /\ run[u] = "running"

\* The calls whose exception reaches the top-level handler of
\* execute_workflow; an executor's exception is kept by gather, or caught
\* by the debug loop.
TopLevel == {"planning", "approval", "quality"}

\* C9 as claimed: whenever any call raised, execute_workflow returns with
\* status failed and the error stored under the key "error".
C9_AnyExceptionFails ==
  (Returned /\ raised # {}) => (final = "failed" /\ results.error)

\* C9, amended: execute_workflow returns by a return statement; an exception
\* in planning, approval or the quality gates gives status failed with the
\* error stored; an executor's exception in a dispatch or a retry is a task
\* failure, which stores no error and fails the workflow only by exhausting
\* the task's attempts.
C9_ExceptionsAreCaught ==
  Returned =>
    /\ exit # "none"
    /\ (raised \cap TopLevel # {}) =>
         (final = "failed" /\ results.error /\ exit = "crash")
    /\ (raised \cap TopLevel = {}) =>
         /\ ~results.error
         /\ final = "failed" =>
              ((\E t \in TaskIds : Exhausted(t)) \/ quality_report = "failed")

\* An executor raised, its task was fixed by a retry, and then the gate
\* runner raised.
C9_Witness ==
  /\ Returned
  /\ "dispatch" \in raised
  /\ "quality" \in raised
  /\ \A t \in TaskIds : ~Exhausted(t)

\* C10 as claimed: execute_workflow returns only by completion, fail-fast
\* failure, deadlock or approval rejection.
C10_FourWaysOut ==
  Returned => (exit \in {"normal", "failfast", "rejected"} \/ deadlocked)

\* C10, amended: execute_workflow eventually returns, and it does so by
\* completion (also after the deadlock branch), fail-fast failure, approval
\* rejection, a failed quality-gate report or a caught exception.
C10_Terminates ==
  /\ <>Returned
  /\ [](Returned =>
          exit \in {"normal", "failfast", "rejected", "gatefail", "crash"})

\* A run that returned because the quality gates failed, without deadlock.
C10_Witness == Returned /\ exit = "gatefail" /\ ~deadlocked

\* The plan has no dependency cycle: its tasks can be ranked so that every
\* dependency inside the plan ranks below the task that names it.
Acyclic ==
  \E r \in [1..Len(tasks) -> 1..Len(tasks)] :
    \A t \in 1..Len(tasks) : \A d \in Deps(t) \cap (1..Len(tasks)) : r[d] < r[t]

\* Every dependency id is the id of a task of the plan.
DepsExist == \A t \in 1..Len(tasks) : Deps(t) \subseteq 1..Len(tasks)

\* Every executor call made so far for a first dispatch succeeded.
FirstDispatchesSucceeded ==
  \A t \in TaskIds : outcomes[t] # <<>> => outcomes[t][1]

\* C11: for an acyclic plan whose dependency ids all exist, with every
\* executor succeeding on its first dispatch and no quality gates (planning
\* and approval going through), execute_workflow returns with status
\* completed, a result recorded for every task, and every executor invoked
\* exactly once.
C11_HappyPathCompletes ==
  (/\ Returned
   /\ Acyclic /\ DepsExist
   /\ ~quality_gates
   /\ FirstDispatchesSucceeded
   /\ raised = {}
   /\ exit # "rejected")
  => /\ final = "completed"
     /\ \A t \in 1..Len(tasks) :
          /\ results.task[t] = "completed"
          /\ calls[t] = 1
          /\ metrics[t] = 1

\* A chain of MaxTasks tasks, each depending on the one before, has
\* completed with every executor succeeding at once.
C11_Witness ==
  /\ Returned
  /\ Len(tasks) = MaxTasks
  /\ \A t \in 2..MaxTasks : Deps(t) = {t - 1}
  /\ Deps(1) = {}
  /\ ~quality_gates
  /\ FirstDispatchesSucceeded
  /\ final = "completed"
  /\ \A t \in TaskIds : calls[t] = 1

\* C12: when the board rejects the proposal the status becomes aborted and
\* execute_workflow has returned, no task having been dispatched; when it
\* approves, the conditions are in the metadata before the status becomes
\* executing.
C12_ApprovalGate ==
  /\ []("board_rejection_reason" \in metadata =>
          /\ require_board_approval
          /\ Returned /\ exit = "rejected" /\ final = "aborted"
          /\ ready_tasks = <<>>
          /\ \A t \in TaskIds : calls[t] = 0 /\ run[t] = "idle")
  /\ [][("board_rejection_reason" \notin metadata /\
          "board_rejection_reason" \in metadata') =>
          (status' = "aborted" /\ pc' = "returned")]_vars
  /\ [][(require_board_approval /\ status # "executing" /\ status' = "executing")
          => "board_conditions" \in metadata]_vars

C12_Witness ==
  /\ require_board_approval
  /\ "board_rejection_reason" \in metadata
  /\ Returned
  /\ status = "aborted"

\* Every task of the plan is completed.
AllCompleted == \A t \in 1..Len(tasks) : t \in completed_task_ids

\* C13: with gate names supplied and every task completed, the gates are
\* run in status quality_check and their report is recorded; the workflow
\* returns failed when the report failed and completed when it passed;
\* without gate names the status is never quality_check and no report is
\* recorded.
C13_QualityGates ==
  /\ [](~quality_gates => (status # "quality_check" /\ quality_report = "none"))
  /\ []((Returned /\ quality_report = "failed") =>
          (final = "failed" /\ exit = "gatefail"))
  /\ []((Returned /\ quality_report = "passed") =>
          (final = "completed" /\ exit = "normal"))
  /\ [][(pc = "quality" /\ quality_gates /\ AllCompleted /\ pc' # "quality"
          /\ "quality" \notin raised') =>
          /\ quality_report' \in {"passed", "failed"}
          /\ quality_report' = "passed" => status' = "quality_check"
          /\ quality_report' = "failed" => status' = "failed"]_vars

C13_Witness ==
  /\ quality_gates
  /\ AllCompleted
  /\ Returned
  /\ quality_report = "failed"
  /\ final = "failed"

\* The last call on the bus was a receive that returned a message.
ReceivedOne == last_call.op = "receive" /\ last_call.msg # <<>>

\* C14: receive returns a message exactly when the recipient's queue holds
\* one that is not expired, and then one of the highest priority among
\* those, the one sent first among equals; so two receives in a row return
\* non-increasing priorities.
C14_HighestPriorityFirst ==
  /\ [][\A a \in Agents :
          (last_call'.op = "receive" /\ last_call'.agent = a) =>
            LET live == {m \in Range(queues[a]) : ~is_expired(m, now')}
                got  == last_call'.msg
            IN  IF live = {} THEN got = <<>>
                ELSE /\ Len(got) = 1
                     /\ got[1] \in live
                     /\ \A m \in live :
                          /\ m.priority <= got[1].priority
                          /\ m.priority = got[1].priority =>
                               got[1].message_id <= m.message_id]_vars
  /\ [][(/\ ReceivedOne
          /\ last_call'.op = "receive" /\ last_call'.msg # <<>>
          /\ last_call'.agent = last_call.agent) =>
          last_call'.msg[1].priority <= last_call.msg[1].priority]_vars

\* receive returned a message that was sent after one that is still queued,
\* because its priority is higher.
C14_Witness ==
  /\ ReceivedOne
  /\ \E m \in Range(queues[last_call.agent]) :
       /\ m.message_id < last_call.msg[1].message_id
       /\ m.priority < last_call.msg[1].priority

\* How many times listener l occurs in the sequence of calls q.
Count(l, q) == Cardinality({i \in 1..Len(q) : q[i] = l})

\* C15: a send of a CRITICAL message calls every listener subscribed for
\* the message's receiver exactly once within the send, and no other
\* listener, whichever of them raise.
C15_CriticalNotifiesEach ==
  (last_call.op = "send" /\ last_call.msg[1].priority = CRITICAL) =>
    /\ last_call.msg[1].message_id \in notified
    /\ \A l \in Listeners :
         Count(l, last_call.invoked) =
           IF l \in Range(subscribers[last_call.agent]) THEN 1 ELSE 0

\* The first of two listeners of the receiver raised, and the second was
\* called all the same.
C15_Witness ==
  /\ last_call.op = "send"
  /\ last_call.msg[1].priority = CRITICAL
  /\ Len(subscribers[last_call.agent]) >= 2
  /\ subscribers[last_call.agent][1] \in last_call.failed
  /\ Count(subscribers[last_call.agent][2], last_call.invoked) = 1

\* The number of places message id takes in the queue of agent a.
InQueue(id, a) ==
  Cardinality({i \in 1..Len(queues[a]) : queues[a][i].message_id = id})

Sent == 1..Len(history)

\* C16: a sent message is in at most one queue, and only in its receiver's;
\* receive returns it at most once and only to its receiver; a CRITICAL
\* message is in no queue and is never returned; a message dropped as
\* expired is never returned.
C16_OneQueueOneReturn ==
  /\ \A a \in Agents : \A i \in 1..Len(queues[a]) :
       /\ queues[a][i].receiver = a
       /\ queues[a][i].priority # CRITICAL
       /\ queues[a][i].message_id \in Sent
  /\ \A id \in MessageIds :
       /\ \A a, b \in Agents :
            /\ InQueue(id, a) <= 1
            /\ a # b => ~(InQueue(id, a) > 0 /\ InQueue(id, b) > 0)
       /\ Len(delivered[id]) <= 1
       /\ delivered[id] # <<>> => \A a \in Agents : InQueue(id, a) = 0
       /\ id \in notified =>
            (delivered[id] = <<>> /\ \A a \in Agents : InQueue(id, a) = 0)
       /\ id \in purged =>
            (delivered[id] = <<>> /\ \A a \in Agents : InQueue(id, a) = 0)
  /\ ReceivedOne =>
       /\ last_call.msg[1].receiver = last_call.agent
       /\ last_call.msg[1].priority # CRITICAL
       /\ delivered[last_call.msg[1].message_id] = <<last_call.agent>>
       /\ last_call.msg[1].message_id \notin purged

\* One message was returned by receive and another was CRITICAL.
C16_Witness ==
  /\ ReceivedOne
  /\ notified # {}

\* C17: receive never returns a message whose age has reached its TTL.
C17_NeverReturnsAtTtl ==
  ReceivedOne =>
    now - last_call.msg[1].timestamp < last_call.msg[1].ttl_seconds

\* C18: under every interleaving of sends and receives, each queue is
\* sorted by priority, highest first, and every sent message is accounted
\* for exactly once: queued once, returned once, dropped as expired, or
\* handed to the listeners.
C18_QueueMutationsAtomic ==
  /\ \A a \in Agents : \A i, j \in 1..Len(queues[a]) :
       i < j => queues[a][i].priority >= queues[a][j].priority
  /\ \A id \in Sent :
       InQueue(id, "code_worker") + InQueue(id, "test_worker")
         + Len(delivered[id])
         + (IF id \in purged THEN 1 ELSE 0)
         + (IF id \in notified THEN 1 ELSE 0) = 1

\* A send, a receive and another send on one recipient: the first message
\* has been returned and the second is queued.
C18_Witness ==
  \E a \in Agents :
    /\ delivered[1] = <<a>>
    /\ InQueue(2, a) = 1

\* C19: the breaker is closed exactly while fewer than failure_threshold
\* failures were recorded since the start or the last success: it is closed
\* and admits calls below the threshold, open from the threshold-th failure
\* on and refuses calls until the recovery timeout has passed; a
\* record_success sets the counter to 0.
C19_TripsAtThreshold ==
  /\ [](state = "closed" <=> streak < failure_threshold)
  /\ [][answer'.op = "record_failure" =>
          state' = IF streak' >= failure_threshold THEN "open" ELSE "closed"]_vars
  /\ [][answer'.op = "record_success" =>
          (failure_count' = 0 /\ state' = "closed")]_vars
  /\ [][answer'.op = "can_execute" =>
          /\ state = "closed" => (answer'.ret /\ state' = "closed")
          /\ (state = "open" /\ now' - last_failure_time < recovery_timeout) =>
               ~answer'.ret]_vars

\* Two failures in a row have tripped a breaker of threshold 2, which
\* refuses a call.
C19_Witness ==
  /\ failure_threshold = 2
  /\ streak = 2
  /\ state = "open"
  /\ answer.op = "can_execute" /\ ~answer.ret

\* C20: on an open breaker can_execute returns false and leaves it open
\* while the time since the last failure is below recovery_timeout, and
\* returns true and makes it half_open otherwise (at once when the timeout
\* is 0); half_open is entered by no other step.
C20_HalfOpenAfterTimeout ==
  /\ [][(answer'.op = "can_execute" /\ state = "open") =>
          IF now' - last_failure_time < recovery_timeout
            THEN ~answer'.ret /\ state' = "open"
            ELSE answer'.ret /\ state' = "half_open"]_vars
  /\ [][(state # "half_open" /\ state' = "half_open") =>
          /\ answer'.op = "can_execute"
          /\ state = "open"
          /\ answer'.ret
          /\ now' - last_failure_time >= recovery_timeout]_vars

\* A breaker with a positive timeout has been admitted to half_open.
C20_Witness ==
  /\ recovery_timeout > 0
  /\ state = "half_open"
  /\ answer.op = "can_execute" /\ answer.ret

\* C21: once the breaker is half_open, the trial call is out: until the
\* next record_success or record_failure, can_execute admits no further
\* caller.
C21_OneTrialOnly ==
  (answer.op = "can_execute" /\ answer.was = "half_open") => ~answer.ret

\* C22: after record_success the breaker is closed with counter 0; a
\* record_failure on a half_open (or open) breaker leaves it open with the
\* time of the last failure set to the time of the call; the counter of a
\* half_open breaker is at or above the threshold.
C22_TrialDecides ==
  /\ answer.op = "record_success" => (state = "closed" /\ failure_count = 0)
  /\ (answer.op = "record_failure" /\ answer.was \in {"half_open", "open"}) =>
       (state = "open" /\ last_failure_time = now)
  /\ state = "half_open" => failure_count >= failure_threshold

\* The trial of a half_open breaker failed at a later clock reading than
\* the failure before it.
C22_Witness ==
  /\ answer.op = "record_failure"
  /\ answer.was = "half_open"
  /\ state = "open"
  /\ last_failure_time > 0

\* C23: when the breaker denies the call, execute makes no attempt at the
\* service and records neither success nor failure, and returns status
\* degraded with, as its fallback, the result cached for the task's service
\* (the default name when the task names none), marked stale, if there is
\* one, and the placeholder otherwise.
C23_DeniedFallsBack ==
  result.strategy = "graceful_degradation" =>
    /\ result.attempts = 0
    /\ result.recorded = "none"
    /\ result.status = "degraded"
    /\ result.fallback =
         IF fallback_cache[service_name(service)] # NoData
           THEN [source |-> "cache",
                 data |-> fallback_cache[service_name(service)],
                 stale |-> TRUE]
           ELSE [source |-> "default", data |-> NoData, stale |-> TRUE]

\* C24: what get_ready_tasks returns is exactly the tasks whose id is not in
\* the completed set and whose dependency ids are all in it (a task without
\* the field has none), in input order, and the call changes neither the
\* plan nor the completed set.
C24_ReadyTasksExact ==
  /\ [](pc = "fold" =>
         /\ \A i \in 1..Len(tasks) :
              i \in Range(ready_tasks) <=>
                /\ i \notin completed_task_ids
                /\ "dependencies" \in DOMAIN tasks[i] =>
                     tasks[i].dependencies \subseteq completed_task_ids
         /\ Range(ready_tasks) \subseteq 1..Len(tasks)
         /\ \A j, k \in 1..Len(ready_tasks) :
              j < k => ready_tasks[j] < ready_tasks[k])
  /\ [][(pc = "start" /\ pc' = "fold") =>
          (tasks' = tasks /\ completed_task_ids' = completed_task_ids)]_vars

\* A call returned a task that has no dependencies field and held back a
\* task that is not completed.
C24_Witness ==
  /\ pc = "fold"
  /\ \E i \in Range(ready_tasks) : "dependencies" \notin DOMAIN tasks[i]
  /\ \E k \in 1..Len(tasks) :
       k \notin Range(ready_tasks) /\ k \notin completed_task_ids

\* C25 as stated: for every plan without a cycle, calling get_ready_tasks
\* and adding the returned ids to the completed set, again and again,
\* eventually makes is_workflow_complete true.
C25_AcyclicCompletes ==
  Acyclic => <>is_workflow_complete(tasks, completed_task_ids)

\* C25, amended: for every plan without a cycle whose dependency ids are all
\* ids of tasks of the plan, calling get_ready_tasks and adding the returned
\* ids to the completed set, again and again, eventually makes
\* is_workflow_complete true.
C25_AcyclicClosedCompletes ==
  (Acyclic /\ DepsExist) => <>is_workflow_complete(tasks, completed_task_ids)

\* The loop completed a plan of two tasks, the second depending on the
\* first, and the second was the last one returned.
C25_Witness ==
  /\ pc = "start"
  /\ Len(tasks) = 2
  /\ Deps(2) = {1}
  /\ Deps(1) = {}
  /\ ready_tasks = <<2>>
  /\ is_workflow_complete(tasks, completed_task_ids)

\* The decision of the last review, if there was one.
Reviewed == decision_history # <<>>
Decision == decision_history[Len(decision_history)]

\* C26: review_workflow always approves and routes by complexity alone:
\* up to 3 the lowest tier, no conditions, low risk; 4-6 the mid tier with
\* the progress report, and the coordination checkpoint exactly when more
\* than 2 executor types are required; 7-8 the senior tier with daily
\* checkpoints and code review, the integration test exactly when external
\* services are touched, the rollback plan exactly when the database is
\* touched, and risk high exactly then; 9-10 the full board, risk critical.
C26_RoutedByComplexity ==
  Reviewed =>
    LET c == proposal.complexity
        d == Decision
    IN  /\ d.approved
        /\ c <= 3 =>
             /\ d.director = "coo" /\ d.reason = "Low complexity"
             /\ d.conditions = {}
             /\ d.risk_level = "low"
        /\ c \in 4..6 =>
             /\ d.director = "cpo" /\ d.reason = "Medium complexity"
             /\ "progress_report_on_completion" \in d.conditions
             /\ "coordination_checkpoint" \in d.conditions <=>
                  proposal.agents_required > 2
        /\ c \in 7..8 =>
             /\ d.director = "cto" /\ d.reason = "High complexity"
             /\ {"daily_checkpoints", "code_review_required"} \subseteq
                  d.conditions
             /\ "integration_test_mandatory" \in d.conditions <=>
                  proposal.touches_external_services
             /\ "migration_rollback_plan" \in d.conditions <=>
                  proposal.touches_database
             /\ d.risk_level = "high" <=> proposal.touches_database
        /\ c \in 9..10 =>
             /\ d.reason = "Critical complexity"
             /\ d.risk_level = "critical"

\* A senior-tier review of a proposal that touches the database and no
\* external service.
C26_Witness ==
  /\ Reviewed
  /\ proposal.complexity = 8
  /\ proposal.touches_database
  /\ ~proposal.touches_external_services
  /\ Decision.risk_level = "high"

\* C27: for a proposal of complexity 9-10 the conditions contain every
\* condition the senior tier imposes on the same proposal, and rollback
\* plan, security audit, final sign-off and post-mortem, and the penetration
\* test if external services are touched.
C27_FullBoardAddsToSenior ==
  (Reviewed /\ proposal.complexity \in 9..10) =>
    /\ cto_review(proposal).conditions \subseteq Decision.conditions
    /\ {"rollback_plan_mandatory", "security_audit_required",
        "cto_final_sign_off", "post_mortem_on_completion"} \subseteq
         Decision.conditions
    /\ proposal.touches_external_services =>
         "penetration_test_before_deploy" \in Decision.conditions

\* C28: with two runs interleaved on one coordinator, the task-execution
\* records of each run are what they are when it runs alone, also when both
\* plans use the same task ids: for every task a run has been through there
\* is exactly one record, started and completed by that run.
C28_RecordsAsIfAlone ==
  \A w \in Runs : \A id \in 1..(running[w].task_id - 1) :
    Cardinality({i \in 1..Len(finished) :
                   /\ finished[i].task_id = id
                   /\ finished[i].started_by = w
                   /\ finished[i].completed_by = w}) = 1

\* C29: a task whose first dispatch failed is dispatched again at most
\* max_retries times, one call at a time and only while every earlier call
\* for it failed; the first call that does not fail marks the task
\* completed and records its result; a task whose first dispatch did not
\* fail is never dispatched again; so no executor is called more than
\* max_retries + 1 times in one run.
C29_BoundedRetries ==
  /\ \A t \in TaskIds :
       /\ calls[t] <= max_retries + 1
       /\ \A i \in 1..(calls[t] - 1) :
            i <= Len(outcomes[t]) /\ ~outcomes[t][i]
       /\ (Len(outcomes[t]) >= 2 /\ outcomes[t][Len(outcomes[t])]) =>
            /\ t \in completed_task_ids
            /\ ~IsFailure(results.task[t])
            /\ results.task[t] # "none"
  /\ pc = "retry" =>
       /\ \A t \in TaskIds : run[t] \notin {"scheduled", "running"}
       /\ \A t \in TaskIds :
            calls[t] = Len(outcomes[t]) + (IF t = ready_tasks[idx] THEN 1 ELSE 0)

\* A task was fixed by the last of the max_retries fix attempts.
C29_Witness ==
  \E t \in TaskIds :
    /\ calls[t] = max_retries + 1
    /\ outcomes[t] = <<FALSE, FALSE, FALSE, TRUE>>
    /\ t \in completed_task_ids
    /\ pc = "process"

\* C30: a returned result whose status is degraded counts as success: the
\* coordinator marks the task completed and records the result without a
\* fix attempt, after a first dispatch and after a retry alike, so that the
\* tasks depending on it become ready; and a run in which no executor call
\* failed, no quality gate failed, no collaborator raised and the board did
\* not reject returns completed, whatever was degraded.
C30_DegradedIsSuccess ==
  /\ [](\A t \in TaskIds :
          /\ results.task[t] = "degraded" => t \in completed_task_ids
          /\ (/\ outcomes[t] # <<>>
              /\ outcomes[t][Len(outcomes[t])]
              /\ t \in Range(ready_tasks)
              /\ pc = "tick") =>
                (t \in completed_task_ids /\ ~IsFailure(results.task[t])))
  /\ []((/\ Returned
         /\ \A t \in TaskIds : \A i \in 1..Len(outcomes[t]) : outcomes[t][i]
         /\ quality_report # "failed"
         /\ raised = {}
         /\ exit # "rejected")
        => final = "completed")
  /\ [][(/\ pc = "process"
         /\ idx <= Len(ready_tasks)
         /\ batch_results[ready_tasks[idx]] = "degraded"
         /\ (idx' # idx \/ pc' # pc))
         => (/\ results'.task[ready_tasks[idx]] = "degraded"
             /\ ready_tasks[idx] \in completed_task_ids'
             /\ pc' = "process"
             /\ calls' = calls)]_vars

\* A run returned completed with the first task's result degraded and the
\* task that depends on it dispatched after it.
C30_Witness ==
  /\ Returned
  /\ final = "completed"
  /\ Len(tasks) = 2
  /\ Deps(2) = {1}
  /\ results.task[1] = "degraded"
  /\ calls[2] = 1
  /\ results.task[2] # "none"

=============================================================================
